---- MODULE Spec2Model ----
(***************************************************************************)
(* Model of the IoT logger of src/main.py: the module-level session state, *)
(* the files under SESSIONS_DIR, and the handlers /api/start, /api/stop,   *)
(* /api/config and /api/bulk_samples.  Every handler is an "async def"     *)
(* whose body after the last await is synchronous, so each handler body is *)
(* one atomic step of the event loop; SpecAsync adds the one suspension,   *)
(* "await request.body()", before that body.  Time is the wall clock in    *)
(* whole seconds, the resolution of new_session_id() and of start_epoch.   *)
(***************************************************************************)
EXTENDS Naturals, Sequences, FiniteSets, TLC

(* ---------- bounds of the model ---------- *)
MaxClock == 2
MaxBatch == 2
MaxRows == 3
MaxInFlight == 2

(* ---------- inputs ---------- *)
Devices == {"a", "tof_01"}
\* the field names in lexicographic order (the order sorted() produces)
FieldOrder == <<"d", "s">>
Values == {1}

\* Python's None; never equal to a session id or a directory name
None == "None"

\* the key sets of the samples the devices send
KeySets == {{"d"}, {"d", "s"}}

\* a sample: a mapping from field names to values
Samples == UNION {[F -> Values] : F \in KeySets}

\* a JSON value that is no object (a number, a string, a list), tagged so that
\* it can stand in a list of samples
NotAMapping == [k \in {"<scalar>"} |-> 7]

\* isinstance(s, dict), as far as the attribute lookups s.keys and s.get go
IsMapping(s) == "<scalar>" \notin DOMAIN s

RECURSIVE SeqsUpTo(_, _)
SeqsUpTo(S, n) ==
    IF n = 0 THEN {<<>>}
    ELSE LET shorter == SeqsUpTo(S, n - 1)
         IN  shorter \cup {Append(q, x) : q \in {r \in shorter : Len(r) = n - 1}, x \in S}

Batches == SeqsUpTo(Samples, MaxBatch)

\* the batches of a device that also sends values that are no objects
PayloadBatches == SeqsUpTo({[k \in {"d"} |-> 1], NotAMapping}, MaxBatch)

\* the samples the loop of append_samples handles before s.get raises
MappingPrefix(samples) ==
    LET bad == {i \in 1..Len(samples) : ~IsMapping(samples[i])}
    IN  IF bad = {} THEN samples
        ELSE SubSeq(samples, 1, (CHOOSE i \in bad : \A j \in bad : i <= j) - 1)

(* ---------- state ---------- *)
VARIABLES
    logging_enabled,      \* main.py:18
    start_epoch,          \* main.py:19
    current_session_id,   \* main.py:20
    current_session_dir,  \* main.py:21
    clock,                \* the wall clock, in whole seconds
    disk,                 \* directory name -> (file name -> lines of the file)
    resp,                 \* the response of the last handler that ran
    openId,               \* history: session_id of the last "started" response not yet stopped
    openEpoch,            \* history: start_epoch of that response
    usedIds,              \* history: every session_id a "started" response returned
    sessRows,             \* history: per device, the <<time, sample>> pairs ingested since that Start
    fallbackDirs,         \* history: the directories the fallback of api_bulk_samples chose
    pending,              \* per handler of /api/bulk_samples: the request it holds
    processed             \* history: the request the last resumed handler held

prog == <<logging_enabled, start_epoch, current_session_id, current_session_dir>>
hist == <<openId, openEpoch, usedIds, sessRows, fallbackDirs>>
vars == <<logging_enabled, start_epoch, current_session_id, current_session_dir,
          clock, disk, resp, openId, openEpoch, usedIds, sessRows, fallbackDirs, pending, processed>>

(* ---------- time and names ---------- *)
\* utc_now_iso(): the clock rendered as text
utc_now_iso(t) == "T" \o ToString(t) \o "Z"

\* new_session_id(): strftime("%Y%m%d_%H%M%S") keeps whole seconds only
new_session_id(t) == "S" \o ToString(t)

\* SESSIONS_DIR itself, as a directory name
SESSIONS_DIR == "."

CsvName(device_id) == device_id \o ".csv"

(* ---------- CSV helpers ---------- *)
\* a path is <<directory, file name>>
get_device_csv_path(dir, device_id) ==
    IF dir = None
    THEN <<SESSIONS_DIR, "orphan_" \o CsvName(device_id)>>
    ELSE <<dir, CsvName(device_id)>>

Exists(dk, path) == path[1] \in DOMAIN dk /\ path[2] \in DOMAIN dk[path[1]]

\* a directory without files
EmptyDir == [f \in {} |-> <<>>]

\* pathlib mkdir(exist_ok=True, parents=True)
Mkdir(dk, dir) ==
    IF dir \in DOMAIN dk THEN dk
    ELSE [x \in DOMAIN dk \cup {dir} |-> IF x = dir THEN EmptyDir ELSE dk[x]]

\* replace the lines of one file (creating it when absent) in an existing directory
WriteFile(dk, path, lines) ==
    [dk EXCEPT ![path[1]] =
        [f \in DOMAIN dk[path[1]] \cup {path[2]} |->
            IF f = path[2] THEN lines ELSE dk[path[1]][f]]]

\* str() as csv.writer applies it to a value
Render(v) == ToString(v)

\* sorted(first.keys())
SortedKeys(s) == SelectSeq(FieldOrder, LAMBDA k : k \in DOMAIN s)

\* ensure_device_csv without the early return for an existing file
ensure_device_csv_overwriting(dk, dir, device_id, fieldnames) ==
    LET csv_path == get_device_csv_path(dir, device_id)
    IN  WriteFile(Mkdir(dk, csv_path[1]), csv_path,
                  << <<"server_time_utc", "device_id">> \o fieldnames >>)

ensure_device_csv(dk, dir, device_id, fieldnames) ==
    LET csv_path == get_device_csv_path(dir, device_id)
    IN  IF Exists(dk, csv_path) THEN dk
        ELSE WriteFile(Mkdir(dk, csv_path[1]), csv_path,
                       << <<"server_time_utc", "device_id">> \o fieldnames >>)

\* the row append_samples builds for one sample
EncodeRow(t, device_id, fieldnames, s) ==
    <<utc_now_iso(t), device_id>> \o
    [i \in 1..Len(fieldnames) |->
        IF fieldnames[i] \in DOMAIN s THEN Render(s[fieldnames[i]]) ELSE ""]

\* append_samples opening the file with mode "w" instead of "a"
append_samples_truncating(dk, dir, t, device_id, samples, fieldnames) ==
    LET csv_path == get_device_csv_path(dir, device_id)
        dk1 == Mkdir(dk, csv_path[1])
        done == MappingPrefix(samples)
        rows == [i \in 1..Len(done) |-> EncodeRow(t, device_id, fieldnames, done[i])]
    IN  WriteFile(dk1, csv_path, rows)

\* the with-block closes the file when s.get raises on a sample that is no
\* mapping, so the rows written before it stay in the file
append_samples(dk, dir, t, device_id, samples, fieldnames) ==
    LET csv_path == get_device_csv_path(dir, device_id)
        dk1 == Mkdir(dk, csv_path[1])
        old == IF Exists(dk1, csv_path) THEN dk1[csv_path[1]][csv_path[2]] ELSE <<>>
        done == MappingPrefix(samples)
        rows == [i \in 1..Len(done) |-> EncodeRow(t, device_id, fieldnames, done[i])]
    IN  WriteFile(dk1, csv_path, old \o rows)

(* ---------- responses ---------- *)
NoArchive == [f \in {} |-> <<>>]

Response(op, status) ==
    [op |-> op, status |-> status, session_id |-> None, start_epoch |-> 0,
     written |-> 0, logging |-> FALSE, archive |-> NoArchive]

\* the handlers of /api/bulk_samples that can be suspended in "await request.body()"
Handlers == 1..MaxInFlight

\* a handler is "free" or "awaiting" the body of its request;
\* session, ended and overlapped are history: the session Recording when the
\* request arrived, whether a Stop ended it since, and whether another request
\* of the same device was awaiting at the same time
FreeHandler ==
    [state |-> "free", device_id |-> None, samples |-> <<>>,
     session |-> None, ended |-> FALSE, overlapped |-> FALSE]

Init ==
    /\ logging_enabled = FALSE
    /\ start_epoch = 0
    /\ current_session_id = None
    /\ current_session_dir = None
    /\ clock = 1
    /\ disk = [x \in {SESSIONS_DIR} |-> EmptyDir]
    /\ resp = Response("none", "none")
    /\ openId = None
    /\ openEpoch = 0
    /\ usedIds = {}
    /\ sessRows = [d \in Devices |-> <<>>]
    /\ fallbackDirs = {}
    /\ pending = [h \in Handlers |-> FreeHandler]
    /\ processed = FreeHandler

\* fallback_id without the "orphan_" prefix
fallback_id_unprefixed(session_id, t) ==
    IF session_id # None THEN session_id ELSE new_session_id(t)

\* fallback_id of api_bulk_samples
fallback_id(session_id, t) ==
    IF session_id # None THEN session_id ELSE "orphan_" \o new_session_id(t)

(* ---------- history ---------- *)
\* the history variables follow the responses the handlers return
RecordHistory(r, device_id, samples, t) ==
    LET started == r.op = "start" /\ r.status = "started"
        stopped == r.op = "stop" /\ r.status = "zip"
        ingested == r.op = "ingest" /\ r.status = "ok" /\ openId # None
    IN  /\ openId' = IF started THEN r.session_id ELSE IF stopped THEN None ELSE openId
        /\ openEpoch' = IF started THEN r.start_epoch ELSE IF stopped THEN 0 ELSE openEpoch
        /\ usedIds' = IF started THEN usedIds \cup {r.session_id} ELSE usedIds
        /\ sessRows' =
             IF started THEN [d \in Devices |-> <<>>]
             ELSE IF ingested
                  THEN [sessRows EXCEPT ![device_id] =
                            @ \o [i \in 1..Len(samples) |-> <<t, samples[i]>>]]
                  ELSE sessRows
        /\ fallbackDirs' =
             IF r.op = "ingest" /\ Len(samples) > 0 /\ current_session_dir = None
             THEN fallbackDirs \cup {current_session_dir'}
             ELSE fallbackDirs

\* a successful Stop ends the session of the requests that are still awaiting
PendingAfter(r) ==
    IF r.op = "stop" /\ r.status = "zip"
    THEN [h \in Handlers |->
             IF pending[h].state = "awaiting" THEN [pending[h] EXCEPT !.ended = TRUE]
             ELSE pending[h]]
    ELSE pending

Return(r) ==
    /\ resp' = r
    /\ RecordHistory(r, None, <<>>, 0)
    /\ pending' = PendingAfter(r)
    /\ UNCHANGED processed

(* ---------- POST /api/start ---------- *)
\* api_start without the "already running" early return
ApiStartRestarting ==
    \E t2 \in {clock, clock + 1} :
        /\ t2 <= MaxClock
        /\ clock' = t2
        /\ logging_enabled' = TRUE
        /\ start_epoch' = clock
        /\ current_session_id' = new_session_id(t2)
        /\ current_session_dir' = new_session_id(t2)
        /\ disk' = Mkdir(disk, new_session_id(t2))
        /\ Return([Response("start", "started") EXCEPT
                       !.session_id = new_session_id(t2), !.start_epoch = clock])

ApiStart ==
    IF logging_enabled
    THEN /\ Return([Response("start", "already_running") EXCEPT
                        !.session_id = current_session_id, !.start_epoch = start_epoch])
         /\ UNCHANGED <<prog, clock, disk>>
    ELSE \* datetime.now() is read at line 147 and again inside new_session_id()
         \E t2 \in {clock, clock + 1} :
            /\ t2 <= MaxClock
            /\ clock' = t2
            /\ logging_enabled' = TRUE
            /\ start_epoch' = clock
            /\ current_session_id' = new_session_id(t2)
            /\ current_session_dir' = new_session_id(t2)
            /\ disk' = Mkdir(disk, new_session_id(t2))
            /\ Return([Response("start", "started") EXCEPT
                           !.session_id = new_session_id(t2), !.start_epoch = clock])

(* ---------- GET /api/stop ---------- *)
\* session_dir.glob("*.csv")
Glob(dk, dir) ==
    IF dir \in DOMAIN dk
    THEN {f \in DOMAIN dk[dir] : \E d \in Devices : f = CsvName(d)}
    ELSE {}

\* the ZIP built in memory: entry name -> lines of the entry
BuildZip(dk, session_dir) ==
    LET files == Glob(dk, session_dir)
    IN  IF files = {}
        THEN [f \in {"empty.txt"} |-> << <<"No data collected.">> >>]
        ELSE [f \in files |-> dk[session_dir][f]]

\* api_stop that does not reset current_session_dir
ApiStopKeepingDir ==
    IF current_session_dir = None \/ current_session_id = None
    THEN /\ Return(Response("stop", "error"))
         /\ UNCHANGED <<prog, clock, disk>>
    ELSE /\ logging_enabled' = FALSE
         /\ start_epoch' = 0
         /\ current_session_id' = None
         /\ Return([Response("stop", "zip") EXCEPT
                        !.session_id = current_session_id,
                        !.archive = BuildZip(disk, current_session_dir)])
         /\ UNCHANGED <<current_session_dir, clock, disk>>

\* api_stop testing the session directory only
ApiStopDirOnly ==
    IF current_session_dir = None
    THEN /\ Return(Response("stop", "error"))
         /\ UNCHANGED <<prog, clock, disk>>
    ELSE /\ logging_enabled' = FALSE
         /\ start_epoch' = 0
         /\ current_session_id' = None
         /\ current_session_dir' = None
         /\ Return([Response("stop", "zip") EXCEPT
                        !.session_id = current_session_id,
                        !.archive = BuildZip(disk, current_session_dir)])
         /\ UNCHANGED <<clock, disk>>

ApiStop ==
    IF current_session_dir = None \/ current_session_id = None
    THEN /\ Return(Response("stop", "error"))
         /\ UNCHANGED <<prog, clock, disk>>
    ELSE /\ logging_enabled' = FALSE
         /\ start_epoch' = 0
         /\ current_session_id' = None
         /\ current_session_dir' = None
         /\ Return([Response("stop", "zip") EXCEPT
                        !.session_id = current_session_id,
                        !.archive = BuildZip(disk, current_session_dir)])
         /\ UNCHANGED <<clock, disk>>

(* ---------- GET /api/config ---------- *)
\* api_config deriving "logging" from the session directory
ApiConfigFromDir ==
    /\ Return([Response("config", "ok") EXCEPT
                   !.logging = (current_session_dir # None), !.start_epoch = start_epoch])
    /\ UNCHANGED <<prog, clock, disk>>

ApiConfig ==
    /\ Return([Response("config", "ok") EXCEPT
                   !.logging = logging_enabled, !.start_epoch = start_epoch])
    /\ UNCHANGED <<prog, clock, disk>>

(* ---------- POST /api/bulk_samples ---------- *)
\* the body is no JSON (HTTP 400), or lacks a device_id or a list of samples
ApiBulkRejected(reason) ==
    /\ Return(Response("ingest", reason))
    /\ UNCHANGED <<prog, clock, disk>>

\* the body is valid JSON with a non-empty device_id and a list of samples
ApiBulkSamples(device_id, samples) ==
    IF Len(samples) = 0
    THEN /\ resp' = Response("ingest", "ok")
         /\ RecordHistory(resp', device_id, samples, clock)
         /\ UNCHANGED <<prog, clock, disk>>
    ELSE LET dir == IF current_session_dir = None
                    THEN fallback_id(current_session_id, clock)
                    ELSE current_session_dir
             dk0 == IF current_session_dir = None THEN Mkdir(disk, dir) ELSE disk
             fieldnames == SortedKeys(samples[1])
             dk1 == ensure_device_csv(dk0, dir, device_id, fieldnames)
         IN  /\ resp' = IF \A i \in 1..Len(samples) : IsMapping(samples[i])
                        THEN [Response("ingest", "ok") EXCEPT !.written = Len(samples)]
                        ELSE \* AttributeError: the server answers 500
                             Response("ingest", "error500")
             /\ UNCHANGED <<logging_enabled, start_epoch, current_session_id, clock>>
             /\ current_session_dir' = dir
             /\ RecordHistory(resp', device_id, samples, clock)
             /\ disk' = IF IsMapping(samples[1])
                        THEN append_samples(dk1, dir, clock, device_id, samples, fieldnames)
                        ELSE \* first.keys() raises before any file is touched
                             dk0

(* ---------- the environment ---------- *)
\* every <<directory, file name>> on disk
AllFiles(dk) == UNION {{<<dir, f>> : f \in DOMAIN dk[dir]} : dir \in DOMAIN dk}

RECURSIVE LinesIn(_, _)
LinesIn(dk, paths) ==
    IF paths = {} THEN 0
    ELSE LET p == CHOOSE q \in paths : TRUE
         IN  Len(dk[p[1]][p[2]]) + LinesIn(dk, paths \ {p})

\* the number of lines in all the files on disk
LinesOnDisk(dk) == LinesIn(dk, AllFiles(dk))

\* a second of wall-clock time passes
Tick ==
    /\ clock < MaxClock
    /\ clock' = clock + 1
    /\ UNCHANGED <<prog, disk, resp, hist, pending, processed>>

\* a request is sent only while its samples fit in the MaxRows lines of the disk
Ingest ==
    LET room == MaxRows - LinesOnDisk(disk)
    IN  \E device_id \in Devices, samples \in {b \in Batches : Len(b) <= room} :
            ApiBulkSamples(device_id, samples) /\ UNCHANGED <<pending, processed>>

Next ==
    \/ Tick
    \/ ApiStart
    \/ ApiStop
    \/ ApiConfig
    \/ Ingest

Spec == Init /\ [][Next]_vars

(* ---------- devices that send malformed payloads ---------- *)
IngestPayload ==
    LET room == MaxRows - LinesOnDisk(disk)
    IN  \E device_id \in Devices, samples \in {b \in PayloadBatches : Len(b) <= room} :
            ApiBulkSamples(device_id, samples) /\ UNCHANGED <<pending, processed>>

IngestRejected == \E reason \in {"invalid_json", "invalid_format"} : ApiBulkRejected(reason)

NextPayload ==
    \/ Tick
    \/ ApiStart
    \/ ApiStop
    \/ IngestPayload
    \/ IngestRejected

SpecPayload == Init /\ [][NextPayload]_vars

(* ---------- requests suspended in "await request.body()" ---------- *)
\* the device whose requests overlap, and the batches it sends
AsyncDevices == {"a"}
AsyncBatches == {<<[k \in {"d"} |-> 1]>>,
                 <<[k \in {"d"} |-> 1], [k \in {"d", "s"} |-> 1]>>}

RECURSIVE AwaitedSamples(_)
\* the number of samples in the requests the handlers of H are awaiting
AwaitedSamples(H) ==
    IF H = {} THEN 0
    ELSE LET h == CHOOSE x \in H : TRUE
         IN  (IF pending[h].state = "awaiting" THEN Len(pending[h].samples) ELSE 0)
                 + AwaitedSamples(H \ {h})

\* a request reaches api_bulk_samples, which suspends at line 219 before it has
\* read any of the session state
Arrive ==
    LET room == MaxRows - LinesOnDisk(disk) - AwaitedSamples(Handlers)
        idle == {h \in Handlers : pending[h].state = "free"}
    IN  /\ idle # {}
        /\ \E device_id \in AsyncDevices, samples \in {b \in AsyncBatches : Len(b) <= room} :
               LET h == CHOOSE x \in idle : \A y \in idle : x <= y
                   together == \E o \in Handlers :
                                  /\ pending[o].state = "awaiting"
                                  /\ pending[o].device_id = device_id
               IN  pending' =
                       [o \in Handlers |->
                           IF o = h
                           THEN [state |-> "awaiting", device_id |-> device_id,
                                 samples |-> samples, session |-> openId,
                                 ended |-> FALSE, overlapped |-> together]
                           ELSE IF pending[o].state = "awaiting"
                                     /\ pending[o].device_id = device_id
                                THEN [pending[o] EXCEPT !.overlapped = TRUE]
                                ELSE pending[o]]
        /\ UNCHANGED <<prog, clock, disk, resp, hist, processed>>

\* the body has arrived: the rest of the handler, lines 220-259, runs without
\* another await
Process(h) ==
    /\ pending[h].state = "awaiting"
    /\ pending' = [pending EXCEPT ![h] = FreeHandler]
    /\ processed' = [pending[h] EXCEPT !.samples = <<>>]
    /\ ApiBulkSamples(pending[h].device_id, pending[h].samples)

Resume == \E h \in Handlers : Process(h)

NextAsync ==
    \/ Tick
    \/ ApiStart
    \/ ApiStop
    \/ Arrive
    \/ Resume

SpecAsync == Init /\ [][NextAsync]_vars

(* ======================= the claims ======================= *)
\* a session opened by a "started" response has not been stopped yet
Recording == openId # None

\* the devices with an ingest accepted since the Start that opened the session
SessionDevices == {d \in Devices : sessRows[d] # <<>>}

\* the schema of a device in the session: the sorted keys of its first sample
SessionSchema(d) == SortedKeys(sessRows[d][1][2])

\* the number of data rows (lines after the header) of a device's file
DataRows(dk, dir, d) ==
    IF Exists(dk, <<dir, CsvName(d)>>) THEN Len(dk[dir][CsvName(d)]) - 1 ELSE 0

StopSucceeded == resp.op = "stop" /\ resp.status = "zip"

\* C1: an ingest of a non-empty batch while no session is Recording returns
\* written=0 without error and leaves the disk (rows, files, directories) as it was.
C1_IdleDrop ==
    [][\A dv \in Devices, b \in Batches :
          (~Recording /\ b # <<>> /\ ApiBulkSamples(dv, b))
              => (resp'.status = "ok" /\ resp'.written = 0 /\ disk' = disk)]_vars

\* C2: once a device has an accepted batch in the session, an ingest for it that
\* carries a field outside the schema fails with SchemaMismatch and writes nothing.
C2_SchemaMismatchRejected ==
    [][\A dv \in Devices, b \in Batches :
          ( /\ Recording
            /\ sessRows[dv] # <<>>
            /\ \E i \in 1..Len(b) : \E k \in DOMAIN b[i] :
                   \A j \in 1..Len(SessionSchema(dv)) : SessionSchema(dv)[j] # k
            /\ ApiBulkSamples(dv, b) )
              => (resp'.status = "SchemaMismatch" /\ disk' = disk)]_vars

\* C3: the archive of a successful Stop has an entry for exactly the devices
\* with an accepted ingest since the Start that opened the session.
C3_ArchiveExactlySessionDevices ==
    StopSucceeded =>
        {f \in DOMAIN resp.archive : f # "empty.txt"} = {CsvName(d) : d \in SessionDevices}

\* C4: a Start that moves Idle to Recording never returns a session_id that an
\* earlier Start returned.
C4_SessionIdUnique ==
    [][(~Recording /\ ApiStart) => resp'.session_id \notin usedIds]_vars

\* C5: a Start while Recording returns the session_id and start_epoch of the
\* opening Start and changes neither the session state nor any file.
C5_StartIdempotent ==
    [][(Recording /\ ApiStart)
          => ( /\ resp'.status = "already_running"
               /\ resp'.session_id = openId
               /\ resp'.start_epoch = openEpoch
               /\ UNCHANGED <<prog, disk>> )]_vars

\* C5 witness: a repeated Start answered after rows were ingested in the session
C5_Witness ==
    /\ resp.op = "start" /\ resp.status = "already_running"
    /\ resp.session_id = openId
    /\ SessionDevices # {}

\* C6: Stop without a Recording session fails with "No active session" and changes
\* no state or file; Stop while Recording succeeds and leaves the status Idle.
C6_StopNoActiveSession ==
    [][ApiStop =>
          IF Recording
          THEN resp'.status = "zip" /\ ~logging_enabled' /\ ~Recording'
          ELSE resp'.status = "error" /\ UNCHANGED <<prog, disk>>]_vars

\* C6 witness: Stop refused although an idle ingest has set a session directory
C6_Witness ==
    /\ resp.op = "stop" /\ resp.status = "error"
    /\ current_session_dir # None
    /\ usedIds # {}

\* C7: every row ingested during the session is in exactly one file of the
\* archive, in ingestion order, a schema field the sample lacks rendered as "".
C7_RoundTrip ==
    StopSucceeded =>
        \A d \in SessionDevices :
            LET schema == SessionSchema(d)
                expected ==
                    [i \in 1..Len(sessRows[d]) |->
                        <<utc_now_iso(sessRows[d][i][1]), d>> \o
                        [j \in 1..Len(schema) |->
                            IF schema[j] \in DOMAIN sessRows[d][i][2]
                            THEN Render(sessRows[d][i][2][schema[j]]) ELSE ""]]
                n == Len(expected)
            IN  (\A i \in 1..n : \A k \in DOMAIN sessRows[d][i][2] :
                     \E j \in 1..Len(schema) : schema[j] = k)
                => /\ CsvName(d) \in DOMAIN resp.archive
                   /\ LET file == resp.archive[CsvName(d)]
                      IN  /\ Len(file) >= n + 1
                          /\ SubSeq(file, Len(file) - n + 1, Len(file)) = expected
                   /\ \A f \in DOMAIN resp.archive \ {CsvName(d)} :
                          \A i \in 2..Len(resp.archive[f]) : resp.archive[f][i][2] # d

\* C8: an accepted ingest of n samples while Recording returns written=n and
\* adds exactly n data rows to the device's file of the session, no other file
\* changing; an ingest of an empty list returns written=0 and changes no file.
C8_IngestWritesN ==
    [][\A dv \in Devices, b \in Batches :
          ApiBulkSamples(dv, b) =>
              IF b = <<>>
              THEN resp'.status = "ok" /\ resp'.written = 0 /\ disk' = disk
              ELSE Recording =>
                  /\ resp'.status = "ok"
                  /\ resp'.written = Len(b)
                  /\ DataRows(disk', openId, dv) = DataRows(disk, openId, dv) + Len(b)
                  /\ AllFiles(disk') = AllFiles(disk) \cup {<<openId, CsvName(dv)>>}
                  /\ \A p \in AllFiles(disk) \ {<<openId, CsvName(dv)>>} :
                         disk'[p[1]][p[2]] = disk[p[1]][p[2]]]_vars

\* C8 witness: a batch of two samples accepted during a session
C8_Witness ==
    /\ Recording
    /\ resp.op = "ingest" /\ resp.written = 2
    /\ \E d \in Devices : Len(sessRows[d]) = 2 /\ DataRows(disk, openId, d) = 2

\* C9: a successful Stop of a session without an accepted ingest returns exactly
\* the placeholder entry, and no Stop returns an archive without entries.
C9_EmptySessionPlaceholder ==
    StopSucceeded =>
        /\ DOMAIN resp.archive # {}
        /\ SessionDevices = {} => DOMAIN resp.archive = {"empty.txt"}

\* C10: /api/config changes no state or file and reports logging=true exactly when
\* a session is Recording, with the start_epoch the opening Start returned.
C10_QueryStatus ==
    [][ApiConfig =>
          /\ UNCHANGED <<prog, clock, disk>>
          /\ resp'.logging = Recording
          /\ Recording => resp'.start_epoch = openEpoch]_vars

\* C10 witness: the status polled during a session, after the clock moved on
C10_Witness ==
    /\ resp.op = "config" /\ resp.logging
    /\ Recording /\ resp.start_epoch = openEpoch
    /\ clock > openEpoch

\* C11: an ingest that fails or is rejected for a malformed payload writes no row,
\* creates no file or directory and changes no session state; no batch is left
\* partially written.
C11_MalformedLeavesNoTrace ==
    [][ /\ \A dv \in Devices, b \in PayloadBatches :
               (ApiBulkSamples(dv, b) /\ resp'.status # "ok") => UNCHANGED <<prog, disk>>
        /\ \A reason \in {"invalid_json", "invalid_format"} :
               ApiBulkRejected(reason) => UNCHANGED <<prog, disk>> ]_vars

\* C12: within a session a device's schema is the sorted field names of the first
\* sample of its first accepted batch: the file starts with the one header of that
\* schema, and every data row of the session has 2 + |schema| fields, the i-th
\* value being the sample's value for schema[i], or "" when the sample lacks it.
C12_SchemaFixedByFirstSample ==
    Recording =>
        \A d \in SessionDevices :
            LET schema == SessionSchema(d)
                file == disk[openId][CsvName(d)]
                n == Len(sessRows[d])
                rows == SubSeq(file, Len(file) - n + 1, Len(file))
            IN  /\ file[1] = <<"server_time_utc", "device_id">> \o schema
                /\ \A i \in 2..Len(file) : file[i][1] # "server_time_utc"
                /\ \A i \in 1..n :
                       /\ Len(rows[i]) = 2 + Len(schema)
                       /\ \A j \in 1..Len(schema) :
                              rows[i][2 + j] =
                                  IF schema[j] \in DOMAIN sessRows[d][i][2]
                                  THEN Render(sessRows[d][i][2][schema[j]]) ELSE ""

\* C13: after a successful Stop no per-device log file of the stopped session is
\* left on disk.
C13_LogsRemovedAfterStop ==
    StopSucceeded => Glob(disk, resp.session_id) = {}

\* C16: logging_enabled holds exactly when current_session_id is set; while it
\* holds, current_session_dir is the directory named by current_session_id and
\* start_epoch is the epoch the opening Start stamped; while it does not hold,
\* start_epoch is 0 and current_session_dir is unset.
C16_StateConsistency ==
    /\ logging_enabled <=> current_session_id # None
    /\ logging_enabled =>
           /\ current_session_dir = current_session_id
           /\ start_epoch = openEpoch
    /\ ~logging_enabled =>
           /\ start_epoch = 0
           /\ current_session_dir = None

\* C17: no archive is built from a directory the fallback of api_bulk_samples
\* stored data in, so that data is in no archive; and a Stop issued after a
\* fallback ingest, with no Start in between, reports "No active session".
C17_FallbackNeverArchived ==
    /\ [](StopSucceeded =>
              /\ resp.session_id \notin fallbackDirs
              /\ resp.archive = BuildZip(disk, resp.session_id))
    /\ [][(ApiStop /\ current_session_dir \in fallbackDirs)
              => (resp'.status = "error" /\ UNCHANGED <<prog, disk>>)]_vars

\* C17 witness: an archive with device files returned after a fallback ingest
\* had stored a file of its own
C17_Witness ==
    /\ StopSucceeded
    /\ DOMAIN resp.archive # {"empty.txt"}
    /\ \E dir \in fallbackDirs : Glob(disk, dir) # {}

\* C14 (its last clause): a batch whose rows are written while a session is
\* Recording lands in the session that was Recording when the batch arrived,
\* never in a session started after it arrived.
C14_NeverInLaterSession ==
    [][\A h \in Handlers :
          (Process(h) /\ Recording /\ disk' # disk)
              => (pending[h].session = openId /\ ~pending[h].ended)]_vars

\* C15: a resumed handler appends its whole batch as one block after the lines
\* the device's file already holds, the rows of earlier batches untouched, and
\* the file has exactly one header line; so the batches of two requests that were
\* awaiting together are two contiguous blocks under one header.
C15_BatchesContiguous ==
    [][\A h \in Handlers :
          Process(h) =>
              LET path == <<current_session_dir', CsvName(pending[h].device_id)>>
                  old == IF Exists(disk, path) THEN disk[path[1]][path[2]] ELSE <<>>
                  new == disk'[path[1]][path[2]]
                  first == IF old = <<>> THEN 2 ELSE Len(old) + 1
              IN  /\ Len(new) = first - 1 + Len(pending[h].samples)
                  /\ SubSeq(new, 1, Len(old)) = old
                  /\ {i \in 1..Len(new) : new[i][1] = "server_time_utc"} = {1}
                  /\ \A i \in first..Len(new) :
                         /\ new[i][1] = utc_now_iso(clock)
                         /\ new[i][2] = pending[h].device_id
                         /\ new[i][3] = Render(pending[h].samples[i - first + 1]["d"])]_vars

\* C15 witness: both of two requests of one device that were awaiting together
\* have been processed in the session they arrived in
C15_Witness ==
    /\ Recording
    /\ resp.op = "ingest" /\ resp.status = "ok"
    /\ processed.overlapped
    /\ processed.session = openId /\ ~processed.ended
    /\ \A h \in Handlers : pending[h].state = "free"
    /\ Len(sessRows[processed.device_id]) = 3

\* C18: once a session is stopped, no step changes the files of its directory
\* unless a session with the same directory is Recording again.
C18_StoppedSessionFilesFrozen ==
    [][\A id \in usedIds :
          openId # id => (id \in DOMAIN disk' /\ disk'[id] = disk[id])]_vars

\* C18 witness: a request that arrived during a session was processed after the
\* Stop of that session, which had archived files
C18_Witness ==
    /\ ~Recording
    /\ resp.op = "ingest" /\ resp.written > 0
    /\ processed.session \in usedIds /\ processed.ended
    /\ Glob(disk, processed.session) # {}
====
